---- MODULE Spec2Model ----
(***************************************************************************)
(* The forecasting pipeline of model/forecast.py: generate_forecast with   *)
(* its fallback generate_simple_forecast and generate_insights.            *)
(*                                                                         *)
(* Months are counted from January 2014 (month 0).  A real number is held  *)
(* as a fraction [n, d] with d > 0; a month of the Monthly Series or the   *)
(* Forecast Series is the first-of-month timestamp of that month index.    *)
(***************************************************************************)
EXTENDS Integers, Sequences, FiniteSets, TLC

\* ---------------------------------------------------------------- bounds
MaxMonth == 12      \* order dates fall in months 0..MaxMonth
MaxRows == 2        \* the record set has at most this many rows
MaxSpan == 20       \* the long record sets span months 0..MaxSpan
MaxLevel == 2       \* the fitted model's first point forecast lies in -1..MaxLevel

\* ------------------------------------------------------- program constants
forecast_steps == 12
min_train == 12
arima_threshold_above == min_train + 1
arima_threshold == 12
default_accuracy == 85
simple_accuracy == 75
tail_months == 6
growth_months == 12

\* ---------------------------------------------------------------- numbers
Rat(n, d) == [n |-> n, d |-> d]

RECURSIVE Gcd(_, _)
Gcd(a, b) == IF b = 0 THEN a ELSE Gcd(b, a % b)

Abs(i) == IF i < 0 THEN 0 - i ELSE i

\* the fraction n/d (d > 0) in lowest terms
Frac(n, d) == LET g == Gcd(Abs(n), d) IN Rat(n \div g, d \div g)

Int2Rat(i) == Rat(i, 1)
RatLeq(a, b) == a.n * b.d <= b.n * a.d
RatLt(a, b) == a.n * b.d < b.n * a.d
RatEq(a, b) == a.n * b.d = b.n * a.d
RatAdd(a, b) == Frac(a.n * b.d + b.n * a.d, a.d * b.d)
RatSub(a, b) == Frac(a.n * b.d - b.n * a.d, a.d * b.d)
RatMul(a, b) == Frac(a.n * b.n, a.d * b.d)
\* a / b for b > 0
RatDiv(a, b) == Frac(a.n * b.d, a.d * b.n)
RatMax(a, b) == IF RatLeq(a, b) THEN b ELSE a

Pow10(k) == IF k = 1 THEN 10 ELSE 100

\* round(x, digits): nearest multiple of 10^-digits, ties to even
round(x, digits) ==
    LET s == x.n * Pow10(digits)
        q == s \div x.d
        r == s % x.d
        up == IF 2 * r > x.d THEN TRUE
              ELSE IF 2 * r < x.d THEN FALSE
              ELSE q % 2 = 1
    IN  Rat(IF up THEN q + 1 ELSE q, Pow10(digits))

RECURSIVE SeqSum(_)
SeqSum(s) == IF s = <<>> THEN 0 ELSE Head(s) + SeqSum(Tail(s))

\* Series.mean() of a non-empty sequence of integers
mean(s) == Frac(SeqSum(s), Len(s))

\* Series.tail(k)
tail(s, k) == IF Len(s) <= k THEN s ELSE SubSeq(s, Len(s) - k + 1, Len(s))

\* ------------------------------------------------------------------ dates
MonthNames == <<"January", "February", "March", "April", "May", "June", "July",
                "August", "September", "October", "November", "December">>

YearOf(m) == 2014 + (m \div 12)

\* Timestamp.strftime('%B %Y') of the first day of month m
strftime(m) == MonthNames[(m % 12) + 1] \o " " \o ToString(YearOf(m))

\* Series.dt.to_period('M') of a date
to_period(date) == date.month

\* int(year) of the year filter
int(year) == CASE year = "2014" -> 2014 [] year = "2015" -> 2015 [] OTHER -> 2016

\* ------------------------------------------------------------ record sets
\* The order lines a row can carry; groupby visits keys in sorted order.
OrderLines ==
    { [Sales |-> 2, Profit |-> 1, Category |-> "Furniture", Region |-> "East",
       OrderID |-> "CA-1", ProductName |-> "Chair", day |-> 5],
      [Sales |-> 0, Profit |-> -1, Category |-> "Technology", Region |-> "West",
       OrderID |-> "CA-2", ProductName |-> "Phone", day |-> 20] }

\* the row of order line l ordered in month m
Row(m, l) ==
    [OrderDate |-> [month |-> m, day |-> l.day], Sales |-> l.Sales,
     Profit |-> l.Profit, Category |-> l.Category, Region |-> l.Region,
     OrderID |-> l.OrderID, ProductName |-> l.ProductName]

Rows == {Row(m, l) : m \in 0..MaxMonth, l \in OrderLines}

\* a third order line, for months that hold several records
ExtraLine ==
    [Sales |-> 1, Profit |-> 0, Category |-> "Office Supplies", Region |-> "East",
     OrderID |-> "CA-3", ProductName |-> "Paper", day |-> 11]

CategoryKeys == <<"Furniture", "Office Supplies", "Technology">>
RegionKeys == <<"East", "West">>
ProductKeys == <<"Chair", "Paper", "Phone">>

\* the columns load_and_preprocess_data hands over that the pipeline reads
AllColumns == {"Order Date", "Sales", "Profit", "Order ID", "Category", "Region",
               "Product Name", "Year", "MonthPeriod"}
\* the columns a record set may come without
OptionalColumns == {"Profit", "Category", "MonthPeriod"}

\* the sets of at most k rows
RECURSIVE RowSetsUpTo(_)
RowSetsUpTo(k) ==
    IF k = 0 THEN {{}}
    ELSE LET smaller == RowSetsUpTo(k - 1)
         IN  smaller \cup {R \cup {r} : R \in smaller, r \in Rows}

RowSets == RowSetsUpTo(MaxRows)

RECURSIVE SetSum(_, _)
SetSum(R, col) ==
    IF R = {} THEN 0
    ELSE LET r == CHOOSE x \in R : TRUE
         IN  (IF col = "Sales" THEN r.Sales ELSE r.Profit) + SetSum(R \ {r}, col)

RegionArgs == {"All", "East"}
CategoryArgs == {"All", "Furniture"}
YearArgs == {"All", "2014"}

\* ------------------------------------------------------ Monthly Aggregator
\* the boolean-mask selections of the three filters
ApplyFilters(rows, region, category, year) ==
    { r \in rows :
        /\ region # "All" => r.Region = region
        /\ category # "All" => r.Category = category
        /\ year # "All" => YearOf(r.OrderDate.month) = int(year) }

\* df[df[col] == value] raises KeyError when the column is absent
FilterRaises(columns, region, category, year) ==
    \/ region # "All" /\ "Region" \notin columns
    \/ category # "All" /\ "Category" \notin columns
    \/ year # "All" /\ "Year" \notin columns

NoFilter(region, category, year) == region = "All" /\ category = "All" /\ year = "All"

\* the columns after "ensure we have the MonthPeriod column"
EnsureMonthPeriod(columns) ==
    IF "MonthPeriod" \notin columns /\ "Order Date" \in columns
    THEN columns \cup {"MonthPeriod"}
    ELSE columns

\* df.groupby('MonthPeriod')['Sales'] raises KeyError without either column
GroupRaises(columns) == "MonthPeriod" \notin columns \/ "Sales" \notin columns

\* df.groupby('MonthPeriod')['Sales'].sum(): month -> summed Sales
GroupSales(rows) ==
    [m \in {to_period(r.OrderDate) : r \in rows} |->
        SetSum({r \in rows : to_period(r.OrderDate) = m}, "Sales")]

SetMin(S) == CHOOSE x \in S : \A y \in S : x <= y
SetMax(S) == CHOOSE x \in S : \A y \in S : x >= y

\* only the two end months, nothing in between
date_range_ends(start, end) == IF start = end THEN <<start>> ELSE <<start, end>>

\* pd.date_range(start, end, freq='MS')
date_range(start, end) == [i \in 1..(end - start + 1) |-> start + i - 1]

\* set_index('Month').reindex(full_range): <<v>> is a value, <<>> is NaN
reindex(grouped, full_range) ==
    [i \in 1..Len(full_range) |->
        IF full_range[i] \in DOMAIN grouped THEN <<grouped[full_range[i]]>> ELSE <<>>]

\* the gaps filled with 0 instead of the value before them
ffill_zero(s) == [i \in 1..Len(s) |-> IF s[i] = <<>> THEN <<0>> ELSE s[i]]

RECURSIVE ffill(_)
ffill(s) ==
    IF Len(s) <= 1 THEN s
    ELSE LET init == ffill(SubSeq(s, 1, Len(s) - 1))
             last == s[Len(s)]
         IN  Append(init, IF last = <<>> THEN init[Len(init)] ELSE last)

RECURSIVE bfill(_)
bfill(s) ==
    IF Len(s) <= 1 THEN s
    ELSE LET rest == bfill(Tail(s))
         IN  <<IF Head(s) = <<>> THEN Head(rest) ELSE Head(s)>> \o rest

fillna0(s) == [i \in 1..Len(s) |-> IF s[i] = <<>> THEN 0 ELSE s[i][1]]

\* lines 28-52: the Monthly Series of a non-empty grouping
MonthlySales(rows) ==
    LET grouped == GroupSales(rows)
        full_range == date_range(SetMin(DOMAIN grouped), SetMax(DOMAIN grouped))
        sales == fillna0(bfill(ffill(reindex(grouped, full_range))))
    IN  [i \in 1..Len(full_range) |-> [Month |-> full_range[i], Sales |-> sales[i]]]

SalesOf(monthly) == [i \in 1..Len(monthly) |-> monthly[i].Sales]

\* ------------------------------------------------------------------ split
\* 80% rounded up instead of truncated
int_80pct_ceil(n) == (n * 8 + 9) \div 10

\* int(n * 0.8)
int_80pct(n) == (n * 8) \div 10

train_size(n) == IF int_80pct(n) >= min_train THEN int_80pct(n) ELSE min_train

Train(sales) ==
    IF train_size(Len(sales)) < Len(sales)
    THEN SubSeq(sales, 1, train_size(Len(sales)))
    ELSE sales

Test(sales) ==
    IF train_size(Len(sales)) < Len(sales)
    THEN SubSeq(sales, train_size(Len(sales)) + 1, Len(sales))
    ELSE <<>>

\* ------------------------------------------------------- Insight Generator
\* a value of the Insight Mapping: a string or a number
Str(s) == [type |-> "str", s |-> s]
Num(x) == [type |-> "num", x |-> x]

\* Series.idxmax() / idxmin(): the first position holding the extreme
idxmax(s) == CHOOSE i \in 1..Len(s) :
                 /\ \A j \in 1..Len(s) : RatLeq(s[j], s[i])
                 /\ \A j \in 1..(i - 1) : RatLt(s[j], s[i])
idxmin(s) == CHOOSE i \in 1..Len(s) :
                 /\ \A j \in 1..Len(s) : RatLeq(s[i], s[j])
                 /\ \A j \in 1..(i - 1) : RatLt(s[i], s[j])

RatSeq(s) == [i \in 1..Len(s) |-> Int2Rat(s[i])]

RECURSIVE RatSum(_)
RatSum(s) == IF s = <<>> THEN Int2Rat(0) ELSE RatAdd(Head(s), RatSum(Tail(s)))

\* mean of a non-empty sequence of fractions
RatMean(s) == RatDiv(RatSum(s), Int2Rat(Len(s)))

\* the keys of a groupby, in sorted order, restricted to those that occur
GroupKeys(keys, present) == SelectSeq(keys, LAMBDA k : k \in present)

\* grouped.idxmax() of a grouping key -> total, 'N/A' for an empty grouping
TopKey(keys, grouped) ==
    LET ks == GroupKeys(keys, DOMAIN grouped)
    IN  IF Len(ks) > 0
        THEN ks[idxmax([i \in 1..Len(ks) |-> Int2Rat(grouped[ks[i]])])]
        ELSE "N/A"

forecast_growth_default == Rat(125, 10)

generate_insights(df, monthly_sales, forecast_df, accuracy) ==
    LET has(c) == c \in df.columns
        rows == df.rows
        total_sales == IF has("Sales") THEN SetSum(rows, "Sales") ELSE 0
        total_profit == IF has("Profit") THEN SetSum(rows, "Profit") ELSE 0
        total_orders == IF has("Order ID")
                        THEN Cardinality({r.OrderID : r \in rows}) ELSE 0
        avg_order_value == IF total_orders > 0
                           THEN Frac(total_sales, total_orders) ELSE Int2Rat(0)
        top_category ==
            IF has("Category") /\ has("Sales")
            THEN TopKey(CategoryKeys,
                        [k \in {r.Category : r \in rows} |->
                            SetSum({r \in rows : r.Category = k}, "Sales")])
            ELSE "N/A"
        top_region ==
            IF has("Region") /\ has("Sales")
            THEN TopKey(RegionKeys,
                        [k \in {r.Region : r \in rows} |->
                            SetSum({r \in rows : r.Region = k}, "Sales")])
            ELSE "N/A"
        top_product ==
            IF has("Product Name") /\ has("Sales")
            THEN TopKey(ProductKeys,
                        [k \in {r.ProductName : r \in rows} |->
                            SetSum({r \in rows : r.ProductName = k}, "Sales")])
            ELSE "N/A"
        sales == RatSeq(SalesOf(monthly_sales))
        peak_month == IF Len(monthly_sales) > 0
                      THEN strftime(monthly_sales[idxmax(sales)].Month) ELSE "N/A"
        low_month == IF Len(monthly_sales) > 0
                     THEN strftime(monthly_sales[idxmin(sales)].Month) ELSE "N/A"
        eligible == Len(monthly_sales) >= growth_months /\ Len(forecast_df) > 0
        forecasts == [i \in 1..Len(forecast_df) |-> forecast_df[i].Forecast]
        recent_avg == mean(tail(SalesOf(monthly_sales), growth_months))
        forecast_growth ==
            IF eligible
            THEN IF RatLt(Int2Rat(0), recent_avg)
                 THEN RatMul(RatSub(RatDiv(RatMean(forecasts), recent_avg), Int2Rat(1)),
                             Int2Rat(100))
                 ELSE Int2Rat(0)
            ELSE forecast_growth_default
        next_peak_forecast ==
            IF eligible THEN strftime(forecast_df[idxmax(forecasts)].Month)
            ELSE "December 2024"
        profitable == {r \in rows : r.Profit > 0}
        most_profitable ==
            IF has("Category") /\ has("Profit")
            THEN TopKey(CategoryKeys,
                        [k \in {r.Category : r \in profitable} |->
                            Cardinality({r \in profitable : r.Category = k})])
            ELSE "N/A"
        profit_margin == IF total_sales > 0
                         THEN Frac(total_profit * 100, total_sales) ELSE Int2Rat(0)
    IN  [total_sales |-> Num(round(Int2Rat(total_sales), 2)),
         total_profit |-> Num(round(Int2Rat(total_profit), 2)),
         total_orders |-> Num(Int2Rat(total_orders)),
         avg_order_value |-> Num(round(avg_order_value, 2)),
         top_category |-> Str(top_category),
         top_region |-> Str(top_region),
         top_product |-> Str(top_product),
         peak_month |-> Str(peak_month),
         low_month |-> Str(low_month),
         model_accuracy |-> Num(round(accuracy, 1)),
         forecast_growth |-> Num(round(forecast_growth, 2)),
         next_peak_forecast |-> Str(next_peak_forecast),
         most_profitable_category |-> Str(most_profitable),
         profit_margin |-> Num(round(profit_margin, 2))]

\* generate_insights adds the MonthName column to the frame it is handed
WithMonthName(monthly_sales) ==
    [i \in 1..Len(monthly_sales) |->
        [Month |-> monthly_sales[i].Month, Sales |-> monthly_sales[i].Sales,
         MonthName |-> strftime(monthly_sales[i].Month)]]

\* the empty-input mapping with the untested-fit accuracy in it
empty_insights_default_accuracy ==
    [total_sales |-> Num(Int2Rat(0)),
     total_profit |-> Num(Int2Rat(0)),
     avg_order_value |-> Num(Int2Rat(0)),
     total_orders |-> Num(Int2Rat(0)),
     top_category |-> Str("N/A"),
     most_profitable_region |-> Str("N/A"),
     model_accuracy |-> Num(Int2Rat(default_accuracy)),
     forecast_growth |-> Num(Int2Rat(0)),
     next_peak_forecast |-> Str("N/A"),
     profit_margin |-> Num(Int2Rat(0)),
     peak_month |-> Str("N/A"),
     low_month |-> Str("N/A")]

\* lines 57-70: the mapping returned for an empty Monthly Series
empty_insights ==
    [total_sales |-> Num(Int2Rat(0)),
     total_profit |-> Num(Int2Rat(0)),
     avg_order_value |-> Num(Int2Rat(0)),
     total_orders |-> Num(Int2Rat(0)),
     top_category |-> Str("N/A"),
     most_profitable_region |-> Str("N/A"),
     model_accuracy |-> Num(Int2Rat(0)),
     forecast_growth |-> Num(Int2Rat(0)),
     next_peak_forecast |-> Str("N/A"),
     profit_margin |-> Num(Int2Rat(0)),
     peak_month |-> Str("N/A"),
     low_month |-> Str("N/A")]

\* --------------------------------------------------------- Forecast Engine
\* the range started at last_date itself
future_dates_from_last(monthly_sales) ==
    LET last_date == monthly_sales[Len(monthly_sales)].Month
    IN  [i \in 1..forecast_steps |-> last_date + (i - 1)]

\* pd.date_range(start=last_date + DateOffset(months=1), periods, freq='MS')
future_dates(monthly_sales) ==
    LET last_date == SetMax({monthly_sales[i].Month : i \in 1..Len(monthly_sales)})
    IN  [i \in 1..forecast_steps |-> last_date + 1 + (i - 1)]

\* model_fit.forecast(steps=12): what the fitted model may answer.  The
\* library's point forecasts are not constrained in sign or in shape.
ForecastLevels == -1 .. MaxLevel
ForecastSlopes == {-1, 0, 1}
ArimaForecasts ==
    { [i \in 1..forecast_steps |-> level + slope * (i - 1)] :
        level \in ForecastLevels, slope \in ForecastSlopes }

\* lines 102-107
primary_forecast_df(monthly_sales, forecast_result) ==
    [i \in 1..forecast_steps |->
        [Month |-> future_dates(monthly_sales)[i],
         Forecast |-> Int2Rat(forecast_result[i]),
         Lower_CI |-> RatMul(Int2Rat(forecast_result[i]), Rat(9, 10)),
         Upper_CI |-> RatMul(Int2Rat(forecast_result[i]), Rat(11, 10))]]

\* sklearn mean_absolute_error
mean_absolute_error(actual, predictions) ==
    Frac(SeqSum([i \in 1..Len(actual) |-> Abs(actual[i] - predictions[i])]), Len(actual))

\* line 114 without the max(0, ...)
holdout_accuracy_unclamped(test, predictions) ==
    IF RatLt(Int2Rat(0), mean(test))
    THEN RatMul(Int2Rat(100),
                RatSub(Int2Rat(1),
                       RatDiv(mean_absolute_error(test, predictions), mean(test))))
    ELSE Int2Rat(default_accuracy)

\* line 114
holdout_accuracy(test, predictions) ==
    IF RatLt(Int2Rat(0), mean(test))
    THEN RatMax(Int2Rat(0),
                RatMul(Int2Rat(100),
                       RatSub(Int2Rat(1),
                              RatDiv(mean_absolute_error(test, predictions), mean(test)))))
    ELSE Int2Rat(default_accuracy)

\* lines 109-116; model_fit.forecast(steps=len(test)) is the head of the
\* 12-step forecast of the same fit
primary_accuracy(test, forecast_result) ==
    IF Len(test) > 0
    THEN holdout_accuracy(test, SubSeq(forecast_result, 1, Len(test)))
    ELSE Int2Rat(default_accuracy)

\* the mean of the whole series, whatever its length
avg_sales_all(monthly_sales) ==
    IF Len(monthly_sales) > 0 THEN mean(SalesOf(monthly_sales)) ELSE Int2Rat(0)

\* lines 134-137
avg_sales(monthly_sales) ==
    IF Len(monthly_sales) >= tail_months
    THEN mean(tail(SalesOf(monthly_sales), tail_months))
    ELSE IF Len(monthly_sales) > 0 THEN mean(SalesOf(monthly_sales)) ELSE Int2Rat(0)

\* lines 157-162
simple_forecast_df(monthly_sales) ==
    [i \in 1..forecast_steps |->
        [Month |-> future_dates(monthly_sales)[i],
         Forecast |-> avg_sales(monthly_sales),
         Lower_CI |-> RatMul(avg_sales(monthly_sales), Rat(85, 100)),
         Upper_CI |-> RatMul(avg_sales(monthly_sales), Rat(115, 100))]]

\* ------------------------------------------------------------------ state
VARIABLES
    caller_df,      \* the record set the caller owns: [columns, rows]
    region, category, year,   \* the filter arguments of the call
    pc,             \* "call", "try", "except", "returned" or "raised"
    df,             \* generate_forecast's local df
    monthly_sales,  \* the Monthly Series
    train, test,    \* the split
    forecast_df,    \* the Forecast Series
    insights,       \* the Insight Mapping
    accuracy,       \* the accuracy handed to generate_insights
    strategy,       \* "none", "empty", "primary" or "fallback"
    arima           \* "not_run", "fitted" or "raised"

vars == <<caller_df, region, category, year, pc, df, monthly_sales, train, test,
          forecast_df, insights, accuracy, strategy, arima>>

\* The record set as the loader hands it over, or with one optional column
\* absent.
Frames ==
    { [columns |-> AllColumns \ drop, rows |-> R] :
        drop \in {{}} \cup {{c} : c \in OptionalColumns}, R \in RowSets }

\* Two order lines up to MaxSpan months apart, the first alone in its month or
\* with a second record beside it, as the loader hands them over.
LongFrames ==
    { [columns |-> AllColumns,
       rows |-> {Row(a, k), Row(b, l)}
                    \cup (IF beside THEN {Row(a, ExtraLine)} ELSE {})] :
        a \in 0..MaxSpan, b \in 0..MaxSpan, k \in OrderLines, l \in OrderLines,
        beside \in BOOLEAN }

InitWith(frames) ==
    /\ caller_df \in frames
    /\ region = "All"
    /\ category = "All"
    /\ year = "All"
    /\ pc = "call"
    /\ df = caller_df
    /\ monthly_sales = <<>>
    /\ train = <<>>
    /\ test = <<>>
    /\ forecast_df = <<>>
    /\ insights = <<>>
    /\ accuracy = Int2Rat(0)
    /\ strategy = "none"
    /\ arima = "not_run"

\* the local df after lines 16-26
LocalFrame(frame, rg, ct, yr) ==
    [columns |-> EnsureMonthPeriod(frame.columns),
     rows |-> ApplyFilters(frame.rows, rg, ct, yr)]

\* the caller's frame after lines 16-26: with no filter the local df is the
\* caller's own object, and line 26 assigns the column on it
CallerFrame(frame, rg, ct, yr) ==
    IF NoFilter(rg, ct, yr)
    THEN [columns |-> EnsureMonthPeriod(frame.columns), rows |-> frame.rows]
    ELSE frame

\* lines 12-80 of generate_forecast: filter, aggregate, fill, split
Aggregate(rg, ct, yr) ==
    /\ pc = "call"
    /\ region' = rg
    /\ category' = ct
    /\ year' = yr
    /\ IF FilterRaises(caller_df.columns, rg, ct, yr)
       THEN /\ pc' = "raised"
            /\ UNCHANGED <<caller_df, df, monthly_sales, train, test, forecast_df,
                           insights, accuracy, strategy, arima>>
       ELSE LET local == LocalFrame(caller_df, rg, ct, yr)
            IN  /\ caller_df' = CallerFrame(caller_df, rg, ct, yr)
                /\ df' = local
                /\ IF GroupRaises(local.columns)
                   THEN /\ pc' = "raised"
                        /\ UNCHANGED <<monthly_sales, train, test, forecast_df,
                                       insights, accuracy, strategy, arima>>
                   ELSE IF local.rows = {}
                   THEN /\ pc' = "returned"
                        /\ monthly_sales' = <<>>
                        /\ forecast_df' = <<>>
                        /\ insights' = empty_insights
                        /\ strategy' = "empty"
                        /\ UNCHANGED <<train, test, accuracy, arima>>
                   ELSE /\ pc' = "try"
                        /\ monthly_sales' = MonthlySales(local.rows)
                        /\ train' = Train(SalesOf(monthly_sales'))
                        /\ test' = Test(SalesOf(monthly_sales'))
                        /\ UNCHANGED <<forecast_df, insights, accuracy, strategy, arima>>

\* generate_simple_forecast, lines 131-166, and the return of its result
SimpleForecast ==
    /\ forecast_df' = simple_forecast_df(monthly_sales)
    /\ accuracy' = Int2Rat(simple_accuracy)
    /\ insights' = generate_insights(df, monthly_sales, forecast_df', accuracy')
    /\ monthly_sales' = WithMonthName(monthly_sales)
    /\ strategy' = "fallback"
    /\ pc' = "returned"

\* lines 82-125: the try block
TryArima ==
    /\ pc = "try"
    /\ IF Len(train) >= arima_threshold
       THEN \/ \* ARIMA(...).fit() or forecast() raises
               /\ pc' = "except"
               /\ arima' = "raised"
               /\ UNCHANGED <<monthly_sales, forecast_df, insights, accuracy, strategy>>
            \/ \E forecast_result \in ArimaForecasts :
                 /\ arima' = "fitted"
                 /\ forecast_df' = primary_forecast_df(monthly_sales, forecast_result)
                 /\ accuracy' = primary_accuracy(test, forecast_result)
                 /\ insights' = generate_insights(df, monthly_sales, forecast_df',
                                                  accuracy')
                 /\ monthly_sales' = WithMonthName(monthly_sales)
                 /\ strategy' = "primary"
                 /\ pc' = "returned"
       ELSE /\ SimpleForecast
            /\ UNCHANGED arima
    /\ UNCHANGED <<caller_df, region, category, year, df, train, test>>

\* lines 127-129: the except clause
Except ==
    /\ pc = "except"
    /\ SimpleForecast
    /\ UNCHANGED <<caller_df, region, category, year, df, train, test, arima>>

Next ==
    \/ \E rg \in RegionArgs, ct \in CategoryArgs, yr \in YearArgs : Aggregate(rg, ct, yr)
    \/ TryArima
    \/ Except

Init == InitWith(Frames)

InitLong == InitWith(LongFrames)

Spec == Init /\ [][Next]_vars

\* the same pipeline on record sets that span up to MaxSpan months
SpecLong == InitLong /\ [][Next]_vars

\* ================================================================= claims
Returned == pc = "returned"
ByStrategy == Returned /\ strategy \in {"primary", "fallback"}
Aggregated == pc \in {"try", "except", "returned"} /\ Len(monthly_sales) > 0
ObservedMonths == {r.OrderDate.month : r \in df.rows}

\* C1: whichever strategy produced the result, the Forecast Series has exactly
\* 12 entries, each one calendar month after the one before, the first being
\* the month after the last month of the Monthly Series.
C1_ForecastMonths ==
    ByStrategy =>
        /\ Len(forecast_df) = 12
        /\ forecast_df[1].Month = monthly_sales[Len(monthly_sales)].Month + 1
        /\ \A i \in 1..(Len(forecast_df) - 1) :
               forecast_df[i + 1].Month = forecast_df[i].Month + 1

\* a primary forecast that runs over the turn of a year
C1_Witness ==
    /\ ByStrategy
    /\ strategy = "primary"
    /\ forecast_df[1].Month % 12 # 0
    /\ Len(monthly_sales) > 12

\* C2: in every entry of a returned Forecast Series,
\* Lower_CI <= Forecast <= Upper_CI, on the primary and on the fallback strategy.
C2_BoundsOrdered ==
    ByStrategy =>
        \A i \in 1..Len(forecast_df) :
            /\ RatLeq(forecast_df[i].Lower_CI, forecast_df[i].Forecast)
            /\ RatLeq(forecast_df[i].Forecast, forecast_df[i].Upper_CI)

\* C3: no call of generate_forecast ends with an error raised to the caller.
C3_NoErrorReachesCaller == pc # "raised"

IsZeroOrNA(v) ==
    \/ v.type = "num" /\ v.x.n = 0
    \/ v.type = "str" /\ v.s = "N/A"

\* C4: when no record is left after filtering, the call returns an empty
\* Monthly Series, an empty Forecast Series and a mapping whose every metric is
\* 0 or "N/A", and neither a forecast strategy nor generate_insights has run.
C4_EmptyDefaults ==
    (Returned /\ df.rows = {}) =>
        /\ monthly_sales = <<>>
        /\ forecast_df = <<>>
        /\ DOMAIN insights # {}
        /\ \A k \in DOMAIN insights : IsZeroOrNA(insights[k])
        /\ strategy = "empty"
        /\ arima = "not_run"

\* a filter that leaves nothing of a non-empty record set
C4_Witness ==
    /\ Returned
    /\ df.rows = {}
    /\ caller_df.rows # {}
    /\ strategy = "empty"

\* C5: the Monthly Series of a non-empty record set runs from the minimum to
\* the maximum observed month and adjacent entries are exactly one month apart.
C5_NoGaps ==
    Aggregated =>
        /\ monthly_sales[1].Month = SetMin(ObservedMonths)
        /\ monthly_sales[Len(monthly_sales)].Month = SetMax(ObservedMonths)
        /\ \A i \in 1..(Len(monthly_sales) - 1) :
               monthly_sales[i + 1].Month = monthly_sales[i].Month + 1

\* two observed months with unobserved months between them
C5_Witness ==
    /\ Aggregated
    /\ Cardinality(ObservedMonths) = 2
    /\ Len(monthly_sales) > 3

\* C6: no step of generate_forecast changes the caller's record set.
C6_CallerFrameUntouched == [][caller_df' = caller_df]_vars

InsightKeys ==
    {"total_sales", "total_profit", "total_orders", "avg_order_value", "top_category",
     "top_region", "top_product", "peak_month", "low_month", "model_accuracy",
     "forecast_growth", "next_peak_forecast", "most_profitable_category",
     "profit_margin"}

\* C7: every returned Insight Mapping has the same fourteen metric names.
C7_FixedKeys == Returned => DOMAIN insights = InsightKeys

\* C8: the accuracy handed to generate_insights is in [0, 100] when it comes
\* from a holdout of positive mean; otherwise it is 85 on the primary path and
\* 75 on the fallback path.
C8_Accuracy ==
    ByStrategy =>
        IF strategy = "fallback" THEN accuracy = Int2Rat(75)
        ELSE IF Len(test) > 0 /\ SeqSum(test) > 0
             THEN RatLeq(Int2Rat(0), accuracy) /\ RatLeq(accuracy, Int2Rat(100))
             ELSE accuracy = Int2Rat(85)

\* a holdout the forecast misses by more than its mean
C8_Witness ==
    /\ ByStrategy
    /\ strategy = "primary"
    /\ Len(test) > 1
    /\ SeqSum(test) > 0
    /\ accuracy = Int2Rat(0)
    /\ \E i \in 1..Len(test) : forecast_df[i].Forecast.n < 0

\* C9: a result comes from the fallback strategy exactly when the training
\* length is below 12 or the primary fit or forecast raised; otherwise the
\* fitted model's forecast, with its 90%/110% band and the primary accuracy, is
\* the one returned.
C9_FallbackTrigger ==
    ByStrategy =>
        /\ strategy = "fallback" <=> (Len(train) < 12 \/ arima = "raised")
        /\ strategy = "primary" =>
               /\ arima = "fitted"
               /\ \A i \in 1..Len(forecast_df) :
                      RatEq(RatMul(forecast_df[i].Lower_CI, Int2Rat(10)),
                            RatMul(forecast_df[i].Forecast, Int2Rat(9)))
               /\ Len(test) = 0 => accuracy = Int2Rat(85)

\* the fit raised on 12 or more training months and the fallback answered
C9_Witness ==
    /\ ByStrategy
    /\ strategy = "fallback"
    /\ Len(train) >= 12
    /\ arima = "raised"

FloorMin(a, b) == IF a <= b THEN a ELSE b
FloorMax(a, b) == IF a >= b THEN a ELSE b

\* C10: the training set is the first min(max(floor(0.8 n), 12), n) entries of
\* the Monthly Series and the holdout is the rest, in order.
C10_Split ==
    Aggregated =>
        LET sales == SalesOf(monthly_sales)
            n == Len(sales)
            k == FloorMin(FloorMax((8 * n) \div 10, 12), n)
        IN  /\ train = SubSeq(sales, 1, k)
            /\ test = SubSeq(sales, k + 1, n)
            /\ train \o test = sales

\* a series long enough for 80% of it to exceed 12 months
C10_Witness ==
    /\ Aggregated
    /\ Len(monthly_sales) = 18
    /\ Len(train) = 14
    /\ Len(test) = 4

\* the sum of the last 6 Sales of the Monthly Series, or of all of them when
\* there are fewer, and how many they are
TrailingCount == FloorMin(Len(monthly_sales), 6)
TrailingSum ==
    SeqSum([i \in 1..TrailingCount |->
               monthly_sales[Len(monthly_sales) - TrailingCount + i].Sales])

\* C11: on the fallback strategy each of the 12 entries has the mean of the
\* trailing 6 months (of all months when fewer) as its Forecast, 85% of it as
\* Lower_CI and 115% of it as Upper_CI, model_accuracy is 75, and a series of
\* length 6 always takes this strategy.
C11_SimpleForecast ==
    /\ (ByStrategy /\ strategy = "fallback") =>
           /\ Len(forecast_df) = 12
           /\ \A i \in 1..Len(forecast_df) :
                  /\ forecast_df[i].Forecast.n * TrailingCount
                         = TrailingSum * forecast_df[i].Forecast.d
                  /\ forecast_df[i].Lower_CI.n * TrailingCount * 100
                         = 85 * TrailingSum * forecast_df[i].Lower_CI.d
                  /\ forecast_df[i].Upper_CI.n * TrailingCount * 100
                         = 115 * TrailingSum * forecast_df[i].Upper_CI.d
           /\ insights.model_accuracy = Num(Rat(750, 10))
    /\ (ByStrategy /\ Len(monthly_sales) = 6) => strategy = "fallback"

\* a fallback forecast whose trailing 6 months differ from the months before
C11_Witness ==
    /\ ByStrategy
    /\ strategy = "fallback"
    /\ Len(monthly_sales) > 6
    /\ TrailingSum > 0
    /\ TrailingSum * Len(monthly_sales) # SeqSum(SalesOf(monthly_sales)) * TrailingCount

RECURSIVE SalesTotal(_)
SalesTotal(R) ==
    IF R = {} THEN 0
    ELSE LET r == CHOOSE x \in R : TRUE IN r.Sales + SalesTotal(R \ {r})

RecordsOf(m) == {r \in df.rows : r.OrderDate.month = m}
EarlierObserved(m) == SetMax({o \in ObservedMonths : o < m})

\* C12: in the Monthly Series a month that has records carries the sum of
\* their Sales, and a month without records carries the value of the month
\* before it, which is the sum of the nearest earlier month that has records.
C12_SumAndForwardFill ==
    Aggregated =>
        \A i \in 1..Len(monthly_sales) :
            LET m == monthly_sales[i].Month
            IN  IF m \in ObservedMonths
                THEN monthly_sales[i].Sales = SalesTotal(RecordsOf(m))
                ELSE /\ i > 1
                     /\ monthly_sales[i].Sales = monthly_sales[i - 1].Sales
                     /\ monthly_sales[i].Sales = SalesTotal(RecordsOf(EarlierObserved(m)))

\* a month of two records that sum to 3, carried into the empty months after it
C12_Witness ==
    /\ Aggregated
    /\ \E i \in 1..(Len(monthly_sales) - 2) :
           /\ Cardinality(RecordsOf(monthly_sales[i].Month)) = 2
           /\ monthly_sales[i].Sales = 3
           /\ RecordsOf(monthly_sales[i + 1].Month) = {}
           /\ RecordsOf(monthly_sales[i + 2].Month) = {}
           /\ monthly_sales[i + 2].Sales = 3

====
